---- MODULE Spec2Model ----
(***************************************************************************)
(* A model of src/stocks.py: one run of the Streamlit script that loads    *)
(* the SC_CODE -> ISIN mapping, downloads the NSE and BSE bhavcopies of    *)
(* the past dates, combines them ("NSE preferred, BSE fallback"), pivots   *)
(* the closes and volumes by NAME and DATE, and reports the daily and      *)
(* total percentage changes of the last `days` dates with data.            *)
(*                                                                         *)
(* DataFrames are sequences of records (rows, in order); a pivoted frame   *)
(* is a record of its index (a set of names), its columns (a sequence of   *)
(* dates) and its cells.  A float is a record: a reduced fraction, NaN or  *)
(* a signed infinity, with IEEE-754 arithmetic as numpy applies it.        *)
(***************************************************************************)
EXTENDS Integers, Sequences, FiniteSets, TLC

\* The number of past dates the run looks at (the script: range(1, 15), 14 dates).
NumDates == 4

\* st.slider("Number of past days", 3, 10, 7)
SliderMin == 3
SliderMax == 10

\* datetime.today(), as a day number counted from 2023-12-01 (day 0): 2024-01-03,
\* so that the dates of the run lie on both sides of the turn of the year.
end_date == 33

-----------------------------------------------------------------------------
(* Floats *)

NaN == [k |-> "nan", n |-> 0, d |-> 1]
Inf(s) == [k |-> "inf", n |-> s, d |-> 1]

Abs(x) == IF x < 0 THEN -x ELSE x
Sign(x) == IF x < 0 THEN -1 ELSE 1

RECURSIVE Gcd(_, _)
Gcd(a, b) == IF b = 0 THEN a ELSE Gcd(b, a % b)

\* The float n/d (d # 0), as a reduced fraction with a positive denominator.
Rat(n, d) ==
    LET g == Gcd(Abs(n), Abs(d))
    IN  [k |-> "num", n |-> Sign(d) * (n \div g), d |-> Abs(d) \div g]

Num(c) == Rat(c, 1)

isna(a) == a.k = "nan"

FSub(a, b) ==
    IF isna(a) \/ isna(b) THEN NaN
    ELSE IF a.k = "num" /\ b.k = "num" THEN Rat(a.n * b.d - b.n * a.d, a.d * b.d)
    ELSE IF a.k = "inf" /\ b.k = "inf" THEN (IF a.n = b.n THEN NaN ELSE a)
    ELSE IF a.k = "inf" THEN a
    ELSE Inf(-b.n)

FMul(a, b) ==
    IF isna(a) \/ isna(b) THEN NaN
    ELSE IF a.k = "num" /\ b.k = "num" THEN Rat(a.n * b.n, a.d * b.d)
    ELSE IF a.n = 0 \/ b.n = 0 THEN NaN
    ELSE Inf(Sign(a.n) * Sign(b.n))

\* numpy's true division: x/0 is a signed infinity and 0/0 is NaN; nothing is raised.
FDiv(a, b) ==
    IF isna(a) \/ isna(b) THEN NaN
    ELSE IF a.k = "inf" /\ b.k = "inf" THEN NaN
    ELSE IF b.k = "inf" THEN Num(0)
    ELSE IF a.k = "inf" THEN Inf(a.n * Sign(b.n))
    ELSE IF b.n = 0 THEN (IF a.n = 0 THEN NaN ELSE Inf(Sign(a.n)))
    ELSE Rat(a.n * b.d, a.d * b.n)

-----------------------------------------------------------------------------
(* Dates *)

\* date.strftime("%Y-%m-%d") of day number n: the zero-padded fields year, month, day.
strftime(n) ==
    IF n < 0 THEN <<2023, 11, 30 + n + 1>>
    ELSE IF n < 31 THEN <<2023, 12, n + 1>>
    ELSE <<2024, 1, n - 30>>

\* A variant: the order of dates formatted "%d-%m-%Y", the day first.
StrLessDayFirst(a, b) ==
    \/ a[3] < b[3]
    \/ a[3] = b[3] /\ a[2] < b[2]
    \/ a[3] = b[3] /\ a[2] = b[2] /\ a[1] < b[1]

\* Python's < on two "%Y-%m-%d" strings: the fields are of fixed width, so the
\* strings compare field by field, from the left.
StrLess(a, b) ==
    \/ a[1] < b[1]
    \/ a[1] = b[1] /\ a[2] < b[2]
    \/ a[1] = b[1] /\ a[2] = b[2] /\ a[3] < b[3]

\* sorted(S): the elements of S, ascending by StrLess.
RECURSIVE sorted(_)
sorted(S) ==
    IF S = {} THEN <<>>
    ELSE LET m == CHOOSE x \in S : \A y \in S : y = x \/ StrLess(x, y)
         IN  <<m>> \o sorted(S \ {m})

\* dates = [end_date - timedelta(days=i) for i in range(1, 15)]
dates == [i \in 1..NumDates |-> end_date - i]

-----------------------------------------------------------------------------
(* The files the run reads *)

\* The ISIN column of a BSE row whose SC_CODE has no row in the mapping (NaN).
NoISIN == "NaN"

\* BSE_ISIN_MAPPING.csv: absent, or rows of SC_CODE and ISIN; the second table
\* repeats a row of the first.
MappingRows == <<[SC_CODE |-> 1, ISIN |-> "I1"]>>
MappingFiles ==
    { [exists |-> FALSE, rows |-> <<>>],
      [exists |-> TRUE, rows |-> MappingRows],
      [exists |-> TRUE, rows |-> MappingRows \o <<MappingRows[1]>>] }

\* The closes an NSE file may report for its equity.
NseCloses == {0, 5}

\* The NSE archive's answer for one date: no file (a holiday), or the day's
\* file: the equity X and a government security (series GS).
NseResponses ==
    { [status_code |-> 404, rows |-> <<>>] } \cup
    { [status_code |-> 200,
       rows |-> << [SYMBOL |-> "X", SERIES |-> "EQ", ISIN |-> "I1",
                    CLOSE |-> c, TOTTRDQTY |-> 10],
                   [SYMBOL |-> "G", SERIES |-> "GS", ISIN |-> "I9",
                    CLOSE |-> 1, TOTTRDQTY |-> 10] >>] : c \in NseCloses }

\* The BSE site's answer for one date: no file, or the day's file.  Scrip 1 is
\* the BSE listing of I1; scrip 3 has no mapping row and the display name "X",
\* and its file holds its row twice.
BseResponses ==
    { [status_code |-> 404, rows |-> <<>>],
      [status_code |-> 200,
       rows |-> << [SC_CODE |-> 1, SC_NAME |-> "XB", CLOSE |-> 4, NO_OF_SHRS |-> 20] >>],
      [status_code |-> 200,
       rows |-> << [SC_CODE |-> 3, SC_NAME |-> "X", CLOSE |-> 8, NO_OF_SHRS |-> 30],
                   [SC_CODE |-> 3, SC_NAME |-> "X", CLOSE |-> 8, NO_OF_SHRS |-> 30] >>] }

-----------------------------------------------------------------------------
(* pandas *)

Range(s) == {s[j] : j \in 1..Len(s)}

\* DataFrame.drop_duplicates(): the first of each run of equal rows is kept.
RECURSIVE drop_duplicates(_)
drop_duplicates(df) ==
    IF df = <<>> THEN <<>>
    ELSE LET head == drop_duplicates(SubSeq(df, 1, Len(df) - 1))
             row == df[Len(df)]
         IN  IF row \in Range(head) THEN head ELSE Append(head, row)

\* pd.concat(frames, ignore_index=True)
RECURSIVE concat(_)
concat(frames) ==
    IF frames = <<>> THEN <<>> ELSE frames[1] \o concat(Tail(frames))

\* One left row of bse_df.merge(bse_map, on="SC_CODE", how="left"): a row per
\* matching row of the mapping, in its order, or one row with a NaN ISIN.
RECURSIVE merge_row(_, _)
merge_row(row, right) ==
    IF right = <<>> THEN <<>>
    ELSE (IF right[1].SC_CODE = row.SC_CODE
          THEN << [SC_CODE |-> row.SC_CODE, SC_NAME |-> row.SC_NAME, CLOSE |-> row.CLOSE,
                   NO_OF_SHRS |-> row.NO_OF_SHRS, ISIN |-> right[1].ISIN] >>
          ELSE <<>>) \o merge_row(row, Tail(right))

RECURSIVE merge_left(_, _)
merge_left(left, right) ==
    IF left = <<>> THEN <<>>
    ELSE LET row == left[1]
             hits == merge_row(row, right)
         IN  (IF hits = <<>>
              THEN << [SC_CODE |-> row.SC_CODE, SC_NAME |-> row.SC_NAME, CLOSE |-> row.CLOSE,
                       NO_OF_SHRS |-> row.NO_OF_SHRS, ISIN |-> NoISIN] >>
              ELSE hits) \o merge_left(Tail(left), right)

EmptyFrame == [index |-> {}, columns |-> <<>>, val |-> <<>>]

\* Whether two rows of the frame share their NAME and DATE.
HasDuplicateEntries(df) ==
    \E a, b \in 1..Len(df) : a < b /\ df[a].NAME = df[b].NAME /\ df[a].DATE = df[b].DATE

\* combined.pivot(index="NAME", columns="DATE", values=...), for a frame without
\* duplicate entries (with them pivot raises ValueError): a row per NAME, a
\* column per DATE in sorted order, NaN where no row of the frame has the pair.
pivot(df, values) ==
    LET names == {df[j].NAME : j \in 1..Len(df)}
        cols == {df[j].DATE : j \in 1..Len(df)}
    IN  [index |-> names,
         columns |-> sorted(cols),
         val |-> [c \in names \X cols |->
                    IF \E j \in 1..Len(df) : df[j].NAME = c[1] /\ df[j].DATE = c[2]
                    THEN LET j == CHOOSE j \in 1..Len(df) :
                                     df[j].NAME = c[1] /\ df[j].DATE = c[2]
                         IN  Num(IF values = "CLOSE" THEN df[j].CLOSE ELSE df[j].VOLUME)
                    ELSE NaN]]

\* lst[-n:]
LastN(lst, n) ==
    IF Len(lst) <= n THEN lst ELSE SubSeq(lst, Len(lst) - n + 1, Len(lst))

\* A variant: the columns are cut and the rows left without a value dropped
\* (df[cols].dropna(how="all")).
select_columns_dropna(df, cols) ==
    LET keep == {name \in df.index :
                    \E j \in 1..Len(cols) : ~isna(df.val[<<name, cols[j]>>])}
    IN  [index |-> keep,
         columns |-> cols,
         val |-> [c \in keep \X Range(cols) |-> df.val[c]]]

\* df[cols]: the frame with the given columns only.
select_columns(df, cols) ==
    [index |-> df.index,
     columns |-> cols,
     val |-> [c \in df.index \X Range(cols) |-> df.val[c]]]

\* ffill along a row: the last value that is not NaN at or before column j.
RECURSIVE ffill(_, _, _)
ffill(df, name, j) ==
    LET v == df.val[<<name, df.columns[j]>>]
    IN  IF ~isna(v) \/ j = 1 THEN v ELSE ffill(df, name, j - 1)

\* A variant: the first column's NaN is filled with zero (pct_change().fillna(0)
\* on the first column).
pct_change_zero_first(df, fill_method) ==
    [index |-> df.index,
     columns |-> df.columns,
     val |-> [c \in df.index \X Range(df.columns) |->
                LET j == CHOOSE j \in 1..Len(df.columns) : df.columns[j] = c[2]
                IN  IF j = 1 THEN Num(0)
                    ELSE FSub(FDiv(ffill(df, c[1], j), ffill(df, c[1], j - 1)), Num(1))]]

\* A row's value at column j as pct_change reads it: forward-filled under
\* fill_method "pad", as it is under None.
filled(df, name, j, fill_method) ==
    IF fill_method = "pad" THEN ffill(df, name, j) ELSE df.val[<<name, df.columns[j]>>]

\* The default fill_method of DataFrame.pct_change: "pad" in pandas 1 and 2,
\* None in pandas 3; the script pins no version.
FillMethods == {"pad", "None"}

\* DataFrame.pct_change(axis=1): each column is data / data.shift(1) - 1 of the
\* (filled) row; the first column is NaN.
pct_change(df, fill_method) ==
    [index |-> df.index,
     columns |-> df.columns,
     val |-> [c \in df.index \X Range(df.columns) |->
                LET j == CHOOSE j \in 1..Len(df.columns) : df.columns[j] = c[2]
                IN  IF j = 1 THEN NaN
                    ELSE FSub(FDiv(filled(df, c[1], j, fill_method),
                                   filled(df, c[1], j - 1, fill_method)), Num(1))]]

\* df * 100
times100(df) ==
    [index |-> df.index,
     columns |-> df.columns,
     val |-> [c \in DOMAIN df.val |-> FMul(df.val[c], Num(100))]]

-----------------------------------------------------------------------------
(* The script *)

VARIABLES
    pc,            \* where the run is
    days,          \* the slider's value
    bse_map,       \* the mapping table, once loaded
    i,             \* how many of the dates the download loop has done
    bse_seen,      \* history: each bse_df the loop downloaded, with its date
    nse_data,      \* the list of normalized NSE frames
    bse_data,      \* the list of normalized BSE frames
    combined,      \* the combined frame the pivot reads
    price_df,      \* closes by NAME and DATE, cut to last_days
    vol_df,        \* volumes by NAME and DATE, cut to last_days
    last_days,     \* the last `days` dates that have data
    daily_change,  \* the changes in percent, and the column "Total Change %"
    final_df,      \* the table shown and exported
    shown          \* what the page shows

vars == <<pc, days, bse_map, i, bse_seen, nse_data, bse_data, combined, price_df,
          vol_df, last_days, daily_change, final_df, shown>>

\* download_nse_bhavcopy(date), given the archive's answer: None, or the rows
\* of the file whose SERIES is "EQ".
download_nse_bhavcopy(r) ==
    IF r.status_code # 200 THEN [none |-> TRUE, rows |-> <<>>]
    ELSE LET IsEQ(row) == row.SERIES = "EQ"
         IN  [none |-> FALSE, rows |-> SelectSeq(r.rows, IsEQ)]

\* download_bse_bhavcopy(date), given the site's answer.
download_bse_bhavcopy(r) ==
    IF r.status_code # 200 THEN [none |-> TRUE, rows |-> <<>>]
    ELSE [none |-> FALSE, rows |-> r.rows]

\* The NSE frame of one date as the loop appends it to nse_data.
nse_frame(df, d) ==
    LET cols == drop_duplicates(
                    [j \in 1..Len(df) |->
                        [SYMBOL |-> df[j].SYMBOL, ISIN |-> df[j].ISIN,
                         CLOSE |-> df[j].CLOSE, TOTTRDQTY |-> df[j].TOTTRDQTY]])
    IN  [j \in 1..Len(cols) |->
            [SYMBOL |-> cols[j].SYMBOL, ISIN |-> cols[j].ISIN, CLOSE |-> cols[j].CLOSE,
             VOLUME |-> cols[j].TOTTRDQTY, DATE |-> strftime(d)]]

\* The BSE frame of one date as the loop appends it to bse_data.
bse_frame(df, map, d) ==
    LET cols == drop_duplicates(
                    [j \in 1..Len(df) |->
                        [SC_CODE |-> df[j].SC_CODE, SC_NAME |-> df[j].SC_NAME,
                         CLOSE |-> df[j].CLOSE, NO_OF_SHRS |-> df[j].NO_OF_SHRS]])
        merged == merge_left(cols, map)
    IN  [j \in 1..Len(merged) |->
            [SC_NAME |-> merged[j].SC_NAME, ISIN |-> merged[j].ISIN,
             CLOSE |-> merged[j].CLOSE, VOLUME |-> merged[j].NO_OF_SHRS,
             DATE |-> strftime(d)]]

\* set(nse_all["ISIN"].dropna().unique())
nse_isins(nse_all) == {nse_all[j].ISIN : j \in 1..Len(nse_all)} \ {NoISIN}

\* A variant: no BSE row is filtered out.
bse_keep_all(row, nse_all) == TRUE

\* A variant: a BSE row is filtered out only when NSE has its ISIN on its DATE.
bse_keep_per_date(row, nse_all) ==
    ~\E j \in 1..Len(nse_all) :
        nse_all[j].ISIN = row.ISIN /\ nse_all[j].DATE = row.DATE

\* Whether a row of bse_all passes ~bse_all["ISIN"].isin(nse_isins).
bse_keep(row, nse_all) == row.ISIN \notin nse_isins(nse_all)

\* The frame `combined` of the lists nd (NSE) and bd (BSE): the NSE rows, then
\* the BSE rows that pass the filter, the names in the column NAME.
Combine(nd, bd) ==
    LET nse_all == concat(nd)
        bse_all == concat(bd)
        Keep(row) == bse_keep(row, nse_all)
        bse_filtered == SelectSeq(bse_all, Keep)
    IN  [j \in 1..Len(nse_all) |->
            [DATE |-> nse_all[j].DATE, ISIN |-> nse_all[j].ISIN,
             NAME |-> nse_all[j].SYMBOL, CLOSE |-> nse_all[j].CLOSE,
             VOLUME |-> nse_all[j].VOLUME]]
        \o
        [j \in 1..Len(bse_filtered) |->
            [DATE |-> bse_filtered[j].DATE, ISIN |-> bse_filtered[j].ISIN,
             NAME |-> bse_filtered[j].SC_NAME, CLOSE |-> bse_filtered[j].CLOSE,
             VOLUME |-> bse_filtered[j].VOLUME]]

\* Whether combined.pivot(index="NAME", columns="DATE", ...) raises ValueError
\* ("Index contains duplicate entries, cannot reshape").
pivot_raises(df) == HasDuplicateEntries(df)

\* A variant: the total change from the first to the last close the row has
\* among the columns (NaN for a row without any).
total_change_present(df, cols) ==
    [name \in df.index |->
        LET has == {j \in 1..Len(cols) : ~isna(df.val[<<name, cols[j]>>])}
        IN  IF has = {} THEN NaN
            ELSE LET first == df.val[<<name, cols[CHOOSE j \in has : \A k \in has : j <= k]>>]
                     last == df.val[<<name, cols[CHOOSE j \in has : \A k \in has : j >= k]>>]
                 IN  FMul(FDiv(FSub(last, first), first), Num(100))]

\* ((price_df[last_days[-1]] - price_df[last_days[0]]) / price_df[last_days[0]]) * 100
total_change(df, cols) ==
    [name \in df.index |->
        LET first == df.val[<<name, cols[1]>>]
            last == df.val[<<name, cols[Len(cols)]>>]
        IN  FMul(FDiv(FSub(last, first), first), Num(100))]

\* A variant: the error is shown and the run goes on (no st.stop()).
after_mapping_error_continue == "download"

\* Where the run is after load_bse_mapping() raised: st.error(...), st.stop().
after_mapping_error == "stopped"

Init ==
    /\ pc = "load"
    /\ days = 0
    /\ bse_map = <<>>
    /\ i = 0
    /\ bse_seen = <<>>
    /\ nse_data = <<>>
    /\ bse_data = <<>>
    /\ combined = <<>>
    /\ price_df = EmptyFrame
    /\ vol_df = EmptyFrame
    /\ last_days = <<>>
    /\ daily_change = [frame |-> EmptyFrame, total |-> <<>>]
    /\ final_df = [index |-> {}, columns |-> <<>>, change |-> <<>>, volume |-> <<>>,
                   total |-> <<>>]
    /\ shown = "title"

\* bse_map = load_bse_mapping(), the file being there.
LoadMapping ==
    /\ pc = "load"
    /\ \E f \in MappingFiles :
          /\ f.exists
          /\ bse_map' = f.rows
    /\ pc' = "download"
    /\ UNCHANGED <<days, i, bse_seen, nse_data, bse_data, combined, price_df, vol_df,
                   last_days, daily_change, final_df, shown>>

\* load_bse_mapping() raises: st.error(...) and st.stop().
LoadMappingFails ==
    /\ pc = "load"
    /\ \E f \in MappingFiles : ~f.exists
    /\ shown' = "error"
    /\ pc' = after_mapping_error
    /\ UNCHANGED <<days, bse_map, i, bse_seen, nse_data, bse_data, combined, price_df,
                   vol_df, last_days, daily_change, final_df>>

\* One pass of `for d in dates`.
Download ==
    /\ pc = "download"
    /\ i < NumDates
    /\ \E rn \in NseResponses, rb \in BseResponses :
          LET d == dates[i + 1]
              nse_df == download_nse_bhavcopy(rn)
              bse_df == download_bse_bhavcopy(rb)
          IN  /\ nse_data' = IF nse_df.none THEN nse_data
                             ELSE Append(nse_data, nse_frame(nse_df.rows, d))
              /\ bse_data' = IF bse_df.none THEN bse_data
                             ELSE Append(bse_data, bse_frame(bse_df.rows, bse_map, d))
              /\ bse_seen' = IF bse_df.none THEN bse_seen
                             ELSE Append(bse_seen, [d |-> d, df |-> bse_df.rows])
    /\ i' = i + 1
    /\ UNCHANGED <<pc, days, bse_map, combined, price_df, vol_df, last_days,
                   daily_change, final_df, shown>>

\* if nse_data or bse_data: ... combined = pd.concat(...)
Reconcile ==
    /\ pc = "download"
    /\ i = NumDates
    /\ nse_data # <<>> \/ bse_data # <<>>
    /\ combined' = Combine(nse_data, bse_data)
    /\ pc' = "pivot"
    /\ UNCHANGED <<days, bse_map, i, bse_seen, nse_data, bse_data, price_df, vol_df,
                   last_days, daily_change, final_df, shown>>

\* else: st.warning("No Bhavcopy data found for last 2 weeks.")
NoData ==
    /\ pc = "download"
    /\ i = NumDates
    /\ nse_data = <<>> /\ bse_data = <<>>
    /\ shown' = "warning"
    /\ pc' = "done"
    /\ UNCHANGED <<days, bse_map, i, bse_seen, nse_data, bse_data, combined, price_df,
                   vol_df, last_days, daily_change, final_df>>

\* The pivot raises: the run ends with the exception.
PivotRaises ==
    /\ pc = "pivot"
    /\ pivot_raises(combined)
    /\ shown' = "exception"
    /\ pc' = "raised"
    /\ UNCHANGED <<days, bse_map, i, bse_seen, nse_data, bse_data, combined, price_df,
                   vol_df, last_days, daily_change, final_df>>

\* The pivots, the cut to the last `days` dates, the changes, the final table
\* and its display, chart and download button.  `days` is the slider's value
\* (st.slider("Number of past days", 3, 10, 7)), which the script reads first
\* and uses here only; a value above NumDates cuts nothing (there are at most
\* NumDates columns), as NumDates does.
Report ==
    /\ pc = "pivot"
    /\ ~pivot_raises(combined)
    /\ \E v \in SliderMin..SliderMax, fill_method \in FillMethods :
          /\ v <= NumDates
          /\ days' = v
          /\ LET price_all == pivot(combined, "CLOSE")
                 vol_all == pivot(combined, "VOLUME")
                 cols == LastN(sorted(Range(price_all.columns)), v)
                 prices == select_columns(price_all, cols)
                 vols == select_columns(vol_all, cols)
                 change == times100(pct_change(prices, fill_method))
                 total == total_change(prices, cols)
             IN  /\ last_days' = cols
                 /\ price_df' = prices
                 /\ vol_df' = vols
                 /\ daily_change' = [frame |-> change, total |-> total]
                 /\ final_df' = [index |-> prices.index, columns |-> cols,
                                 change |-> change.val, volume |-> vols.val,
                                 total |-> total]
    /\ shown' = "table"
    /\ pc' = "done"
    /\ UNCHANGED <<bse_map, i, bse_seen, nse_data, bse_data, combined>>

Next ==
    \/ LoadMapping
    \/ LoadMappingFails
    \/ Download
    \/ Reconcile
    \/ NoData
    \/ PivotRaises
    \/ Report

Spec == Init /\ [][Next]_vars

-----------------------------------------------------------------------------
(* What the claims speak of *)

\* `combined` has been computed.
Reconciled == pc \in {"pivot", "raised"} \/ (pc = "done" /\ shown = "table")

\* The run has produced and shown final_df.
Tabled == pc = "done" /\ shown = "table"

NseRows == concat(nse_data)
BseRows == concat(bse_data)

\* The rows of `combined` with the given ISIN and DATE, and with NAME and DATE.
ByIsin(isin, date) ==
    {j \in 1..Len(combined) : combined[j].ISIN = isin /\ combined[j].DATE = date}
ByName(name, date) ==
    {j \in 1..Len(combined) : combined[j].NAME = name /\ combined[j].DATE = date}

\* The row of `combined` an NSE row, and a BSE row, turns into.
OfNse(r) ==
    [DATE |-> r.DATE, ISIN |-> r.ISIN, NAME |-> r.SYMBOL, CLOSE |-> r.CLOSE,
     VOLUME |-> r.VOLUME]
OfBse(r) ==
    [DATE |-> r.DATE, ISIN |-> r.ISIN, NAME |-> r.SC_NAME, CLOSE |-> r.CLOSE,
     VOLUME |-> r.VOLUME]

\* The calendar day (a day number) of a formatted date of the range.
DayOf(date) == CHOOSE n \in (end_date - NumDates)..end_date : strftime(n) = date

\* The columns of the window on which the instrument has a close.
Observed(name) ==
    {j \in 1..Len(last_days) : ~isna(price_df.val[<<name, last_days[j]>>])}

Min(S) == CHOOSE x \in S : \A y \in S : x <= y
Max(S) == CHOOSE x \in S : \A y \in S : x >= y

-----------------------------------------------------------------------------
(* C1 *)

\* An ISIN and date both exchanges report.
BothReport(a, b) ==
    /\ NseRows[a].ISIN = BseRows[b].ISIN
    /\ NseRows[a].DATE = BseRows[b].DATE

\* C1: for every ISIN and date on which both NSE and BSE supply a record with
\* that ISIN, `combined` holds exactly one record of that ISIN and date, and it
\* is the NSE record (its NAME, CLOSE and VOLUME are NSE's).
C1_NsePreferredOnSharedDate ==
    Reconciled =>
        \A a \in 1..Len(NseRows), b \in 1..Len(BseRows) :
            BothReport(a, b) =>
                LET hits == ByIsin(NseRows[a].ISIN, NseRows[a].DATE)
                IN  /\ Cardinality(hits) = 1
                    /\ \A j \in hits : combined[j] = OfNse(NseRows[a])

\* Both exchanges report I1 on one date, with different closes and volumes.
C1_Witness ==
    /\ Reconciled
    /\ \E a \in 1..Len(NseRows), b \in 1..Len(BseRows) :
          /\ BothReport(a, b)
          /\ NseRows[a].CLOSE # BseRows[b].CLOSE
          /\ NseRows[a].VOLUME # BseRows[b].VOLUME

-----------------------------------------------------------------------------
(* C2 *)

\* C2: the dates a row of the output is reported on (last_days, the columns of
\* price_df and final_df) are strictly increasing in calendar order, and each
\* cell of an instrument and a date comes from one record of `combined`: no two
\* records share the cell, and the cell is missing exactly when there is none.
C2_DatesIncreasingOneRecordPerCell ==
    Tabled =>
        /\ price_df.columns = last_days
        /\ final_df.columns = last_days
        /\ \A j, k \in 1..Len(last_days) :
              j < k => DayOf(last_days[j]) < DayOf(last_days[k])
        /\ \A name \in final_df.index, j \in 1..Len(last_days) :
              LET src == ByName(name, last_days[j])
                  cell == <<name, last_days[j]>>
              IN  /\ Cardinality(src) <= 1
                  /\ src = {} => isna(price_df.val[cell]) /\ isna(final_df.volume[cell])
                  /\ \A r \in src :
                        /\ price_df.val[cell] = Num(combined[r].CLOSE)
                        /\ final_df.volume[cell] = Num(combined[r].VOLUME)

\* A table whose dates run from December 2023 into January 2024, with both an
\* empty and a filled cell.
C2_Witness ==
    /\ Tabled
    /\ Len(last_days) >= 3
    /\ last_days[1][1] = 2023
    /\ last_days[Len(last_days)][1] = 2024
    /\ \E name \in final_df.index, j, k \in 1..Len(last_days) :
          /\ ByName(name, last_days[j]) = {}
          /\ ByName(name, last_days[k]) # {}

-----------------------------------------------------------------------------
(* C3 *)

\* C3 as claimed: the change reported at the first date of the window is zero
\* for every instrument.
C3_FirstChangeZero ==
    Tabled =>
        \A name \in final_df.index : final_df.change[<<name, last_days[1]>>] = Num(0)

\* C3, amended: the change reported at the first date of the window is the
\* missing value (NaN) for every instrument, with or without a close that day.
C3_FirstChangeMissing ==
    Tabled =>
        \A name \in final_df.index :
            /\ isna(final_df.change[<<name, last_days[1]>>])
            /\ isna(daily_change.frame.val[<<name, last_days[1]>>])

\* An instrument with a close on the first date of a window of several dates.
C3_Witness ==
    /\ Tabled
    /\ Len(last_days) >= 2
    /\ \E name \in final_df.index : 1 \in Observed(name)

-----------------------------------------------------------------------------
(* C4 *)

\* The percent change from close f to close l.
PercentChange(f, l) == FMul(FDiv(FSub(l, f), f), Num(100))

\* C4 as claimed: for an instrument with at least two observations in the
\* window, the total change is the percent change from its close on the first
\* date to its close on the last date on which it has an observation.
C4_TotalFromFirstAndLastPresent ==
    Tabled =>
        \A name \in final_df.index :
            Cardinality(Observed(name)) >= 2 =>
                final_df.total[name] =
                    PercentChange(price_df.val[<<name, last_days[Min(Observed(name))]>>],
                                  price_df.val[<<name, last_days[Max(Observed(name))]>>])

\* C4, amended: the total change is computed from the closes on the first and
\* the last date of the window: it is missing when the instrument has no record
\* on either of them, and (l - f) / f * 100 of the two records' closes f # 0 and
\* l otherwise, whatever the dates between them hold.
C4_TotalFromWindowEnds ==
    Tabled =>
        \A name \in final_df.index :
            LET F == ByName(name, last_days[1])
                L == ByName(name, last_days[Len(last_days)])
            IN  /\ F = {} \/ L = {} => isna(final_df.total[name])
                /\ \A f \in F, l \in L :
                      combined[f].CLOSE # 0 =>
                          final_df.total[name] =
                              Rat((combined[l].CLOSE - combined[f].CLOSE) * 100,
                                  combined[f].CLOSE)

\* An instrument with two observations in the window and none on its first or
\* last date.
C4_Witness ==
    /\ Tabled
    /\ \E name \in final_df.index :
          /\ Cardinality(Observed(name)) >= 2
          /\ 1 \notin Observed(name) \/ Len(last_days) \notin Observed(name)

-----------------------------------------------------------------------------
(* C5 *)

\* Two rows of `combined` with one NAME, of a BSE record without ISIN and of an
\* instrument with an ISIN.
NamespacesMeet(a, b) ==
    /\ combined[a].ISIN = NoISIN
    /\ combined[b].ISIN # NoISIN
    /\ combined[a].NAME = combined[b].NAME

\* C5: a BSE record whose scrip code has no mapping row is kept with a null
\* ISIN under its SC_NAME, and the rows keyed so are apart from the instruments
\* with an ISIN: no row of the output holds records of both kinds, and the
\* pivot does not fail over a record of each kind with one NAME and DATE.
C5_NullIsinNamespaceSeparate ==
    /\ Reconciled =>
          \A b \in 1..Len(BseRows) :
              BseRows[b].ISIN = NoISIN => \E j \in 1..Len(combined) : combined[j] = OfBse(BseRows[b])
    /\ Tabled =>
          \A a, b \in 1..Len(combined) : ~NamespacesMeet(a, b)
    /\ pc = "raised" =>
          \A a, b \in 1..Len(combined) :
              ~(NamespacesMeet(a, b) /\ combined[a].DATE = combined[b].DATE)

-----------------------------------------------------------------------------
(* C6 *)

\* C6: when loading the mapping fails, the run shows the error and stops there:
\* nothing has been downloaded, normalized, combined or reported, and no step of
\* the script follows.
C6_MappingFailureStopsRun ==
    shown = "error" =>
        /\ pc = "stopped"
        /\ ~ENABLED Next
        /\ i = 0
        /\ bse_seen = <<>> /\ nse_data = <<>> /\ bse_data = <<>>
        /\ combined = <<>>
        /\ price_df = EmptyFrame /\ vol_df = EmptyFrame
        /\ final_df.index = {} /\ final_df.columns = <<>>

\* The run has stopped over the missing mapping.
C6_Witness == pc = "stopped" /\ shown = "error"

-----------------------------------------------------------------------------
(* C7 *)

\* C7: where the close before is zero (a day's change) or the first close is
\* zero (the total change), the cell is the missing value, not a number and not
\* an infinity.
C7_ZeroCloseGivesSentinel ==
    Tabled =>
        \A name \in final_df.index :
            /\ \A j \in 2..Len(last_days) :
                  /\ price_df.val[<<name, last_days[j - 1]>>] = Num(0)
                  /\ ~isna(price_df.val[<<name, last_days[j]>>])
                  => isna(final_df.change[<<name, last_days[j]>>])
            /\ /\ price_df.val[<<name, last_days[1]>>] = Num(0)
               /\ ~isna(price_df.val[<<name, last_days[Len(last_days)]>>])
               => isna(final_df.total[name])

-----------------------------------------------------------------------------
(* C8 *)

\* C8 as claimed: every row of final_df has an observed close on some date of
\* the window.
C8_NoEmptyRow ==
    Tabled => \A name \in final_df.index : Observed(name) # {}

\* C8, amended: final_df has a row for every NAME with a record on any date of
\* the downloaded range, also when none of its records falls in the window:
\* that row is emitted with every close, change and volume missing.
C8_RowPerNameOfRange ==
    Tabled =>
        /\ final_df.index = {combined[j].NAME : j \in 1..Len(combined)}
        /\ price_df.index = final_df.index
        /\ \A name \in final_df.index :
              Observed(name) = {} =>
                  /\ isna(final_df.total[name])
                  /\ \A j \in 1..Len(last_days) :
                        /\ isna(final_df.change[<<name, last_days[j]>>])
                        /\ isna(final_df.volume[<<name, last_days[j]>>])

\* An instrument whose records all fall before the window.
C8_Witness ==
    /\ Tabled
    /\ \E name \in final_df.index : Observed(name) = {}

-----------------------------------------------------------------------------
(* C9 *)

\* bse_data as the loop builds it from the same downloads when the mapping's
\* repeated rows are dropped.
DedupBseData ==
    [k \in 1..Len(bse_seen) |->
        bse_frame(bse_seen[k].df, drop_duplicates(bse_map), bse_seen[k].d)]

\* C9: repeated rows of the mapping change nothing: `combined` is what the run
\* computes with the repeated rows dropped, and the pivot raises only if it
\* raises then too.
C9_DuplicateMappingRowsIgnored ==
    Reconciled =>
        /\ combined = Combine(nse_data, DedupBseData)
        /\ pc = "raised" => pivot_raises(Combine(nse_data, DedupBseData))

-----------------------------------------------------------------------------
(* C10 *)

\* The ISINs and dates some exchange reports.
Reported ==
    {<<NseRows[a].ISIN, NseRows[a].DATE>> : a \in 1..Len(NseRows)} \cup
    {<<BseRows[b].ISIN, BseRows[b].DATE>> : b \in 1..Len(BseRows)}

NseReports(isin, date) ==
    \E a \in 1..Len(NseRows) : NseRows[a].ISIN = isin /\ NseRows[a].DATE = date

\* C10 as claimed: the preference is per date: for every ISIN and date some
\* exchange reports, `combined` holds exactly one record, and where only BSE
\* reports the ISIN on that date it is the BSE record.
C10_FallbackPerDate ==
    Reconciled =>
        \A c \in Reported :
            c[1] # NoISIN =>
                /\ Cardinality(ByIsin(c[1], c[2])) = 1
                /\ ~NseReports(c[1], c[2]) =>
                      \E b \in 1..Len(BseRows) :
                          \A j \in ByIsin(c[1], c[2]) : combined[j] = OfBse(BseRows[b])

\* C10, amended: the preference is per ISIN over the whole range: a BSE record
\* is in `combined` exactly when its ISIN is null or NSE reports that ISIN on
\* no date of the range, and every NSE record is in `combined`; a BSE record of
\* a date on which only BSE reports the ISIN is dropped when NSE reports the
\* ISIN on another date.
C10_FallbackPerIsinOverRange ==
    Reconciled =>
        /\ \A b \in 1..Len(BseRows) :
              (\E j \in 1..Len(combined) : combined[j] = OfBse(BseRows[b]))
              <=> \/ BseRows[b].ISIN = NoISIN
                  \/ \A a \in 1..Len(NseRows) : NseRows[a].ISIN # BseRows[b].ISIN
        /\ \A a \in 1..Len(NseRows) :
              \E j \in 1..Len(combined) : combined[j] = OfNse(NseRows[a])

\* BSE alone reports I1 on one date, and NSE reports I1 on another.
C10_Witness ==
    /\ Reconciled
    /\ \E b \in 1..Len(BseRows) :
          /\ BseRows[b].ISIN # NoISIN
          /\ ~NseReports(BseRows[b].ISIN, BseRows[b].DATE)
          /\ \E a \in 1..Len(NseRows) : NseRows[a].ISIN = BseRows[b].ISIN
          /\ ByIsin(BseRows[b].ISIN, BseRows[b].DATE) = {}

====
